---- MODULE Spec2Model ----
(***************************************************************************)
(* The image enhancement pipeline of bot/image_processor.py as a state     *)
(* machine: one call of a public entry point at a time, from the request   *)
(* to the returned result. Every library primitive (decode, filter,        *)
(* resize, sharpen, encode) is a stage that may raise; the try/except      *)
(* structure of the source decides where control goes next.                *)
(***************************************************************************)
EXTENDS Integers, Sequences, FiniteSets, TLC

(***************************************************************************)
(* Binary64 arithmetic, as far as the pipeline uses it: the quotient of    *)
(* two positive integers, its product with an integer, and int() of the    *)
(* result. Intermediate values are exact naturals held as little-endian    *)
(* sequences of 15-bit limbs (TLC integers are 32 bits wide); a double is  *)
(* such a natural scaled by 2^-FracBitCount, with at most 53 significant   *)
(* bits.                                                                   *)
(***************************************************************************)
MantissaBits == 53
LimbBits == 15
FracLimbs == 5
FracBitCount == LimbBits * FracLimbs

RECURSIVE Pow2(_)
Pow2(n) == IF n = 0 THEN 1 ELSE 2 * Pow2(n - 1)

LimbBase == Pow2(LimbBits)

\* Number of bits of the integer n >= 0.
RECURSIVE BitLen(_)
BitLen(n) == IF n = 0 THEN 0 ELSE 1 + BitLen(n \div 2)

\* Number of bits of the natural W (its top limb is not 0).
BigBitLen(W) == LimbBits * (Len(W) - 1) + BitLen(W[Len(W)])

\* Bit k (from 0) of W.
BigBit(W, k) ==
    LET i == (k \div LimbBits) + 1
    IN  IF i > Len(W) THEN 0 ELSE (W[i] \div Pow2(k % LimbBits)) % 2

\* Whether W has a non-zero bit below bit k.
BigLowNonZero(W, k) ==
    LET i == (k \div LimbBits) + 1
    IN  \/ \E j \in 1..Len(W) : j < i /\ W[j] # 0
        \/ i <= Len(W) /\ W[i] % Pow2(k % LimbBits) # 0

\* W with the bits below bit k cleared.
BigClearLow(W, k) ==
    LET i == (k \div LimbBits) + 1
    IN  [j \in 1..Len(W) |->
            IF j < i THEN 0
            ELSE IF j = i THEN W[j] - (W[j] % Pow2(k % LimbBits))
            ELSE W[j]]

\* W plus v at limb i, carrying upwards.
RECURSIVE BigAddAt(_, _, _)
BigAddAt(W, i, v) ==
    IF v = 0 THEN W
    ELSE IF i > Len(W) THEN Append(W, v)
    ELSE BigAddAt([W EXCEPT ![i] = (W[i] + v) % LimbBase], i + 1,
                  (W[i] + v) \div LimbBase)

\* c times the limbs W[i..], plus carry, for 0 <= c < LimbBase.
RECURSIVE BigMulFrom(_, _, _, _)
BigMulFrom(W, c, i, carry) ==
    IF i > Len(W) THEN (IF carry = 0 THEN <<>> ELSE <<carry>>)
    ELSE <<(c * W[i] + carry) % LimbBase>>
         \o BigMulFrom(W, c, i + 1, (c * W[i] + carry) \div LimbBase)

BigMulSmall(W, c) == BigMulFrom(W, c, 1, 0)

\* Round W to 53 significant bits, to nearest, ties to even; sticky says
\* that the exact value lies strictly above W.
RoundNE(W, sticky) ==
    LET s == BigBitLen(W) - MantissaBits
    IN  IF s <= 0 THEN W
        ELSE LET guard == BigBit(W, s - 1)
                 rest == sticky \/ BigLowNonZero(W, s - 1)
                 up == guard = 1 /\ (rest \/ BigBit(W, s) = 1)
                 cut == BigClearLow(W, s)
             IN  IF up THEN BigAddAt(cut, (s \div LimbBits) + 1, Pow2(s % LimbBits))
                 ELSE cut

\* The next n limbs of r/d (0 <= r < d < LimbBase), least significant first.
RECURSIVE FracLimbSeq(_, _, _)
FracLimbSeq(r, d, n) ==
    IF n = 0 THEN <<>>
    ELSE FracLimbSeq((r * LimbBase) % d, d, n - 1) \o <<(r * LimbBase) \div d>>

RECURSIVE FracRem(_, _, _)
FracRem(r, d, n) == IF n = 0 THEN r ELSE FracRem((r * LimbBase) % d, d, n - 1)

\* W without its zero top limbs.
RECURSIVE BigTrim(_)
BigTrim(W) ==
    IF W = <<>> \/ W[Len(W)] # 0 THEN W ELSE BigTrim(SubSeq(W, 1, Len(W) - 1))

\* float(t) / float(d) for integers 1 <= t, d < LimbBase.
FloatDiv(t, d) ==
    RoundNE(BigTrim(FracLimbSeq(t % d, d, FracLimbs) \o <<t \div d>>),
            FracRem(t % d, d, FracLimbs) # 0)

\* float(c) * x for an integer 1 <= c < LimbBase and a double x.
FloatMulInt(c, x) == RoundNE(BigMulSmall(x, c), FALSE)

\* int(x) for a double 0 <= x < 2^30.
FloatTrunc(x) ==
    (IF Len(x) > FracLimbs THEN x[FracLimbs + 1] ELSE 0)
    + (IF Len(x) > FracLimbs + 1 THEN LimbBase * x[FracLimbs + 2] ELSE 0)

\* int(c * (t / d)) as Python computes it on floats.
TruncMulDiv(c, t, d) == FloatTrunc(FloatMulInt(c, FloatDiv(t, d)))


(***************************************************************************)
(* Configuration (config.py) and the inputs of a call.                     *)
(***************************************************************************)
HD_SIZE == <<1920, 1080>>
UHD_4K_SIZE == <<3840, 2160>>
SUPPORTED_FORMATS == {"JPEG", "PNG", "WEBP", "BMP", "TIFF"}

Ops == {"toHD", "to4K", "to4KCompressed", "optimize", "convertFormat", "customUpscale"}
Modes == {"L", "LA", "P", "RGB", "RGBA"}
ScaleFactors == {2, 3, 4, 8}
UpscaleModes == {"standard", "smart", "max", "other"}

\* Source sizes: every size up to MaxSmall x MaxSmall, and sizes on each
\* side of every threshold of the pipeline.
MaxSmall == 2
SmallSizes == {<<w, h>> : w \in 1..MaxSmall, h \in 1..MaxSmall}
BaseSizes ==
    { <<50, 50>>, <<383, 216>>, <<384, 216>>, <<479, 270>>, <<480, 270>>,
      <<240, 135>>, <<624, 936>>, <<800, 600>>, <<960, 540>>, <<480, 2000>>,
      <<1000, 3000>>, <<1919, 1080>>, <<1920, 1080>>, <<3840, 2160>>,
      <<4096, 2160>>, <<5000, 3000>>, <<3000, 5000>> }
Sizes == BaseSizes \cup SmallSizes

Sources ==
    [size : Sizes, mode : Modes, cvOk : BOOLEAN, pilOk : BOOLEAN]

Requests ==
    [op : Ops \ {"convertFormat", "customUpscale"}, src : Sources,
     fmt : {"-"}, scale : {0}, umode : {"-"}]
    \cup [op : {"convertFormat"}, src : Sources, fmt : SUPPORTED_FORMATS,
          scale : {0}, umode : {"-"}]
    \cup [op : {"customUpscale"}, src : Sources, fmt : {"-"},
          scale : ScaleFactors, umode : UpscaleModes]

\* Entry-point calls issued side by side.
MaxCalls == 6

(***************************************************************************)
(* State of one call.                                                      *)
(***************************************************************************)
VARIABLES
    pc,        \* the function that runs next, "returned", "done" or "idle"
    req,       \* the request of the call
    img,       \* the buffer the running function holds
    step,      \* loop counter of the multi-step upscaling
    trail,     \* every primitive that ran in this call, in order
    ret,       \* what the worker function returned: "path", "none", "raised"
    result,    \* what the entry point returned to its caller
    outfile    \* the file the call wrote

vars == <<pc, req, img, step, trail, ret, result, outfile>>

(***************************************************************************)
(* State of the bot around the calls: the handlers' data, the temp         *)
(* directory and the executor the entry points hand their work to.         *)
(***************************************************************************)
VARIABLES
    user_data,  \* context.user_data of each user: its 'current_image' or NoImage
    temp_dir,   \* the files in Config.TEMP_DIR
    update,     \* the callback update being handled and how far it got
    reply,      \* the text the bot showed last
    images_processed,  \* the counter of the status page
    calls       \* entry-point calls issued side by side: where each one is

bvars == <<user_data, temp_dir, update, reply, images_processed>>
hvars == <<user_data, temp_dir, update, reply, images_processed, calls>>

Users == {"u1", "u2"}
Calls == 1..MaxCalls

NoImage == [file_path |-> "-", file_id |-> "-"]
NoUpdate == [user |-> "-", data |-> "-", at |-> "idle", result_path |-> "-"]

\* Nothing uploaded, no update being handled, no call issued.
HandlersIdle ==
    /\ user_data = [u \in Users |-> NoImage]
    /\ temp_dir = {}
    /\ update = NoUpdate
    /\ reply = "-"
    /\ images_processed = 0
    /\ calls = [c \in Calls |-> "new"]

NoSize == <<0, 0>>
NoImg == [size |-> NoSize, mode |-> "-"]
NoFile == [size |-> NoSize, mode |-> "-", fmt |-> "-", quality |-> 0,
           optimize |-> FALSE, progressive |-> FALSE, suffix |-> "-", ext |-> "-"]

\* One primitive of the pipeline: ok says whether the library can run it
\* on this buffer (before it ran) and whether it succeeded (in the trail).
\* from, to: the buffer's size before and after; mode, out: its layout
\* before and after.
Ev(fn, kind, from, to, mode, can) ==
    [fn |-> fn, kind |-> kind, from |-> from, to |-> to, off |-> <<0, 0>>,
     mode |-> mode, out |-> mode, ok |-> can]

\* Opening the file, which holds layout mode, as a buffer of layout out.
DecodeEv(fn, size, mode, out, can) ==
    [fn |-> fn, kind |-> "decode", from |-> size, to |-> size, off |-> <<0, 0>>,
     mode |-> mode, out |-> out, ok |-> can]

\* A change of layout.
ConvEv(fn, size, mode, out) ==
    [fn |-> fn, kind |-> "convert", from |-> size, to |-> size, off |-> <<0, 0>>,
     mode |-> mode, out |-> out, ok |-> TRUE]

\* A layout change, if there is one to make.
Conv(fn, size, mode, out) ==
    IF mode # out THEN <<ConvEv(fn, size, mode, out)>> ELSE <<>>

\* A crop of the box of size to at offset off.
CropEv(fn, from, to, off, mode) ==
    [fn |-> fn, kind |-> "crop", from |-> from, to |-> to, off |-> off,
     mode |-> mode, out |-> mode, ok |-> TRUE]

\* The buffer that the last of the stages leaves.
After(stages) ==
    [size |-> stages[Len(stages)].to, mode |-> stages[Len(stages)].out]

Min2(a, b) == IF a <= b THEN a ELSE b

\* The stage that raises: the first one the library cannot run, or the
\* injected fault f (0: none), whichever comes first.
FailAt(stages, f) ==
    LET bad == {i \in 1..Len(stages) : ~stages[i].ok}
        b == IF bad = {} THEN 0 ELSE CHOOSE i \in bad : \A j \in bad : i <= j
    IN  IF f = 0 THEN b ELSE IF b = 0 THEN f ELSE Min2(f, b)

\* The stages that ran when stage k raised (k = 0: all of them succeeded).
Ran(stages, k) ==
    IF k = 0 THEN stages
    ELSE [i \in 1..k |-> [stages[i] EXCEPT !.ok = (i # k)]]

(***************************************************************************)
(* What the libraries accept.                                              *)
(***************************************************************************)
\* PIL writes JPEG from L and RGB only.
JpegWritable(mode) == mode \in {"L", "RGB"}

\* PIL's encoders, per target format.
Writable(fmt, mode) ==
    CASE fmt = "JPEG" -> JpegWritable(mode)
      [] fmt = "BMP" -> mode # "LA"
      [] OTHER -> TRUE

\* ImageEnhance.Sharpness filters the image, which palette images refuse.
CanEnhance(mode) == mode # "P"

\* cv2.bilateralFilter takes 1 or 3 channels.
CanBilateral(mode) == mode \in {"L", "RGB"}

(***************************************************************************)
(* Strategy selection.                                                     *)
(***************************************************************************)
TargetOf(op) == IF op = "toHD" THEN HD_SIZE ELSE UHD_4K_SIZE

SuffixOf(op) ==
    CASE op = "toHD" -> "HD"
      [] op = "to4K" -> "4K"
      [] op = "to4KCompressed" -> "4K_compressed"
      [] OTHER -> "-"

\* width >= target_width and height >= target_height
AlreadyLarge(size, target) == size[1] >= target[1] /\ size[2] >= target[2]

\* max(target_width / width, target_height / height) > n
MaxScaleAbove(size, target, n) ==
    target[1] > n * size[1] \/ target[2] > n * size[2]

\* The except clauses with _max_quality_upscale_image letting its exception
\* go up to _custom_upscale instead of calling _smart_upscale_image.
AfterErrorNoSmart(fn) ==
    CASE fn \in {"_process_to_hd", "_process_to_4k", "_process_to_4k_compressed"}
            -> "_simple_resize"
      [] OTHER -> "returned"

\* The except clauses with _simple_resize calling itself again on failure.
AfterErrorRetry(fn) ==
    CASE fn \in {"_process_to_hd", "_process_to_4k", "_process_to_4k_compressed",
                 "_simple_resize"}
            -> "_simple_resize"
      [] fn = "_max_quality_upscale_image" -> "_smart_upscale_image"
      [] OTHER -> "returned"

\* Where an exception raised in fn is caught: the function that runs next,
\* or "returned" when the except clause returns None.
AfterError(fn) ==
    CASE fn \in {"_process_to_hd", "_process_to_4k", "_process_to_4k_compressed"}
            -> "_simple_resize"
      [] fn = "_max_quality_upscale_image" -> "_smart_upscale_image"
      [] OTHER -> "returned"

EntryPoint(op) ==
    CASE op = "toHD" -> "_process_to_hd"
      [] op = "to4K" -> "_process_to_4k"
      [] op = "to4KCompressed" -> "_process_to_4k_compressed"
      [] op = "optimize" -> "_optimize_image"
      [] op = "convertFormat" -> "_convert_format"
      [] OTHER -> "_custom_upscale"

\* The request is the input of the run: any operation on any source.
Init ==
    /\ HandlersIdle
    /\ pc = "idle"
    /\ req \in Requests
    /\ img = NoImg
    /\ step = 0
    /\ trail = <<>>
    /\ ret = "-"
    /\ result = "-"
    /\ outfile = NoFile

\* enhance_to_hd ... custom_upscale: hand the worker function to the executor.
\* The executor may refuse the job (scheduled = FALSE): the call raises.
Enhance(scheduled) ==
    /\ UNCHANGED hvars
    /\ pc = "idle"
    /\ result' = "pending"
    /\ IF scheduled
       THEN pc' = EntryPoint(req.op) /\ ret' = "-"
       ELSE pc' = "returned" /\ ret' = "raised"
    /\ UNCHANGED <<req, img, step, trail, outfile>>

\* An entry point without its try/except: what the executor raised reaches
\* the caller.
EntryResultUncaught(r) == r

\* The entry point's return: the worker's result, or None from its except.
EntryResult(r) == IF r = "raised" THEN "none" ELSE r

EntryReturn ==
    /\ UNCHANGED hvars
    /\ pc = "returned"
    /\ pc' = "done"
    /\ result' = EntryResult(ret)
    /\ UNCHANGED <<req, img, step, trail, ret, outfile>>

\* A function body: run stages (with fault f); on success go on with pcOk,
\* retOk, the buffer the stages leave and the file fileOk; on an exception
\* go where the enclosing try/except of fn leads.
RunBody(fn, stages, f, pcOk, retOk, fileOk) ==
    LET k == FailAt(stages, f)
    IN  /\ trail' = trail \o Ran(stages, k)
        /\ IF k = 0
           THEN /\ pc' = pcOk
                /\ ret' = retOk
                /\ img' = After(stages)
                /\ outfile' = fileOk
           ELSE /\ pc' = AfterError(fn)
                /\ ret' = IF AfterError(fn) = "returned" THEN "none" ELSE ret
                /\ UNCHANGED <<img, outfile>>

\* The file an encoder writes from the buffer buf.
File(buf, fmt, quality, optimize, progressive, suffix, ext) ==
    [size |-> buf.size, mode |-> buf.mode, fmt |-> fmt, quality |-> quality,
     optimize |-> optimize, progressive |-> progressive, suffix |-> suffix, ext |-> ext]

\* _simple_resize: convert, LANCZOS resize, sharpen 1.2, JPEG 95.
SimpleMode(mode) == IF mode \in {"RGBA", "LA", "P"} THEN "RGB" ELSE mode

SimpleResizeStages(src, target) ==
    LET fn == "_simple_resize"
        m == SimpleMode(src.mode)
    IN  <<DecodeEv(fn, src.size, src.mode, src.mode, src.pilOk)>>
        \o Conv(fn, src.size, src.mode, m)
        \o <<Ev(fn, "resize", src.size, target, m, TRUE),
             Ev(fn, "sharpen", target, target, m, CanEnhance(m)),
             Ev(fn, "encode", target, target, m, JpegWritable(m))>>

SimpleResize ==
    /\ UNCHANGED hvars
    /\ pc = "_simple_resize"
    /\ \E f \in 0..Len(SimpleResizeStages(req.src, TargetOf(req.op))) :
         RunBody("_simple_resize", SimpleResizeStages(req.src, TargetOf(req.op)), f,
                 "returned", "path",
                 File(After(SimpleResizeStages(req.src, TargetOf(req.op))), "JPEG", 95,
                      TRUE, FALSE, SuffixOf(req.op), "jpg"))
    /\ UNCHANGED <<req, step, result>>

\* abs(original_ratio - target_ratio) < 0.01, on the exact ratios (sizes
\* whose ratio lies exactly 0.01 from the target's are not among Sizes).
AspectClose(size, target) ==
    LET d == size[1] * target[2] - target[1] * size[2]
    IN  (IF d < 0 THEN 0 - d ELSE d) * 100 < size[2] * target[2]

\* original_ratio > target_ratio
Wider(size, target) == size[1] * target[2] > target[1] * size[2]

\* The crop box taken from the left or top edge instead of the centre.
CropBoxFromEdge(size, target) ==
    IF Wider(size, target)
    THEN <<(<<TruncMulDiv(size[2], target[1], target[2]), size[2]>>), (<<0, 0>>)>>
    ELSE <<(<<size[1], (size[1] * target[2]) \div target[1]>>), (<<0, 0>>)>>

\* The crop box of _smart_resize: <<size, offset>>. The division by the
\* float target ratio 16/9 truncates to the exact quotient: the float lies
\* 2^-54 (relative) below 16/9, less than half an ulp of any quotient.
CropBox(size, target) ==
    IF Wider(size, target)
    THEN LET nw == TruncMulDiv(size[2], target[1], target[2])
         IN  <<(<<nw, size[2]>>), (<<(size[1] - nw) \div 2, 0>>)>>
    ELSE LET nh == (size[1] * target[2]) \div target[1]
         IN  <<(<<size[1], nh>>), (<<0, (size[2] - nh) \div 2>>)>>

\* _smart_resize: crop to the target's aspect ratio, LANCZOS resize,
\* sharpen 1.1, JPEG 95. The image keeps the mode it was opened with.
SmartResizeStages(src, target) ==
    LET fn == "_smart_resize"
        box == CropBox(src.size, target)
    IN  <<DecodeEv(fn, src.size, src.mode, src.mode, src.pilOk)>>
        \o (IF AspectClose(src.size, target)
            THEN <<Ev(fn, "resize", src.size, target, src.mode, TRUE)>>
            ELSE <<CropEv(fn, src.size, box[1], box[2], src.mode),
                   Ev(fn, "resize", box[1], target, src.mode,
                      box[1][1] > 0 /\ box[1][2] > 0)>>)
        \o <<Ev(fn, "sharpen", target, target, src.mode, CanEnhance(src.mode)),
             Ev(fn, "encode", target, target, src.mode, JpegWritable(src.mode))>>

SmartResize ==
    /\ UNCHANGED hvars
    /\ pc = "_smart_resize"
    /\ \E f \in 0..Len(SmartResizeStages(req.src, TargetOf(req.op))) :
         RunBody("_smart_resize", SmartResizeStages(req.src, TargetOf(req.op)), f,
                 "returned", "path",
                 File(After(SmartResizeStages(req.src, TargetOf(req.op))), "JPEG", 95,
                      TRUE, FALSE, SuffixOf(req.op), "jpg"))
    /\ UNCHANGED <<req, step, result>>

\* cv2.imread gives a 3-channel BGR array whatever the file's layout.
CvMode == "RGB"

\* _process_to_hd without its "img_cv is None" branch to _simple_resize.
HdPathNoPil(src) ==
    IF src.cvOk /\ ~AlreadyLarge(src.size, HD_SIZE) THEN "pipeline" ELSE "_smart_resize"

\* The branch _process_to_hd takes after cv2.imread.
HdPath(src) ==
    IF ~src.cvOk THEN "_simple_resize"
    ELSE IF AlreadyLarge(src.size, HD_SIZE) THEN "_smart_resize"
    ELSE "pipeline"

\* The OpenCV pipeline of _process_to_hd: bilateral filter, INTER_CUBIC
\* resize, sharpening kernel, blend, JPEG 95.
HdStages(src) ==
    LET fn == "_process_to_hd"
    IN  <<DecodeEv(fn, src.size, src.mode, CvMode, TRUE),
          Ev(fn, "filter", src.size, src.size, CvMode, CanBilateral(CvMode)),
          Ev(fn, "resize", src.size, HD_SIZE, CvMode, TRUE),
          Ev(fn, "sharpen", HD_SIZE, HD_SIZE, CvMode, TRUE),
          Ev(fn, "blend", HD_SIZE, HD_SIZE, CvMode, TRUE),
          Ev(fn, "encode", HD_SIZE, HD_SIZE, CvMode, TRUE)>>

\* _process_to_hd. cv2.imwrite may return False without raising; the
\* function does not look at its result.
ProcessToHd ==
    /\ UNCHANGED hvars
    /\ pc = "_process_to_hd"
    /\ IF HdPath(req.src) # "pipeline"
       THEN /\ \E raised \in BOOLEAN :
                 /\ raised => req.src.cvOk
                 /\ trail' = Append(trail, DecodeEv("_process_to_hd", req.src.size,
                                                    req.src.mode, CvMode,
                                                    req.src.cvOk /\ ~raised))
                 /\ pc' = IF raised THEN AfterError("_process_to_hd")
                          ELSE HdPath(req.src)
            /\ UNCHANGED <<img, ret, outfile>>
       ELSE \E f \in 0..Len(HdStages(req.src)), wrote \in BOOLEAN :
              RunBody("_process_to_hd", HdStages(req.src), f, "returned", "path",
                      IF wrote
                      THEN File(After(HdStages(req.src)), "JPEG", 95, FALSE, FALSE,
                                "HD", "jpg")
                      ELSE NoFile)
    /\ UNCHANGED <<req, step, result>>

\* _process_to_4k without its max_scale > 8.0 branch.
K4PathNoLimit(src) ==
    IF ~src.cvOk THEN "_simple_resize"
    ELSE IF AlreadyLarge(src.size, UHD_4K_SIZE) THEN "_smart_resize"
    ELSE "_process_to_4k:loop"

\* The branch _process_to_4k takes after cv2.imread.
K4Path(src) ==
    IF ~src.cvOk THEN "_simple_resize"
    ELSE IF AlreadyLarge(src.size, UHD_4K_SIZE) THEN "_smart_resize"
    ELSE IF MaxScaleAbove(src.size, UHD_4K_SIZE, 8) THEN "_simple_resize"
    ELSE "_process_to_4k:loop"

ProcessTo4k ==
    /\ UNCHANGED hvars
    /\ pc = "_process_to_4k"
    /\ \E raised \in BOOLEAN :
         /\ raised => req.src.cvOk
         /\ trail' = Append(trail, DecodeEv("_process_to_4k", req.src.size, req.src.mode,
                                            CvMode, req.src.cvOk /\ ~raised))
         /\ pc' = IF raised THEN AfterError("_process_to_4k") ELSE K4Path(req.src)
    /\ img' = [size |-> req.src.size, mode |-> CvMode]
    /\ UNCHANGED <<req, step, ret, result, outfile>>

\* int(current * min(2.0, target_width / current_width,
\*                   target_height / current_height)) on both axes.
StepSize(cur, target) ==
    IF 2 * cur[1] <= target[1] /\ 2 * cur[2] <= target[2]
    THEN <<2 * cur[1], 2 * cur[2]>>
    ELSE IF target[1] * cur[2] <= target[2] * cur[1]
    THEN <<TruncMulDiv(cur[1], target[1], cur[1]), TruncMulDiv(cur[2], target[1], cur[1])>>
    ELSE <<TruncMulDiv(cur[1], target[2], cur[2]), TruncMulDiv(cur[2], target[2], cur[2])>>

\* while current_width < target_width or current_height < target_height
Smaller(size, target) == size[1] < target[1] \/ size[2] < target[2]

\* if step > 5: break
LoopBreak(n) == n > 5

\* One iteration of the multi-step loop of _process_to_4k.
K4StepStages(cur) ==
    LET fn == "_process_to_4k"
        new == StepSize(cur, UHD_4K_SIZE)
    IN  <<Ev(fn, "filter", cur, cur, CvMode, CanBilateral(CvMode)),
          Ev(fn, "resize", cur, new, CvMode, new[1] > 0 /\ new[2] > 0)>>

ProcessTo4kStep ==
    /\ UNCHANGED hvars
    /\ pc = "_process_to_4k:loop"
    /\ \E f \in 0..Len(K4StepStages(img.size)) :
         LET new == StepSize(img.size, UHD_4K_SIZE)
         IN  RunBody("_process_to_4k", K4StepStages(img.size), f,
                     IF Smaller(new, UHD_4K_SIZE) /\ ~LoopBreak(step + 1)
                     THEN "_process_to_4k:loop" ELSE "_process_to_4k:final",
                     ret, outfile)
    /\ step' = step + 1
    /\ UNCHANGED <<req, result>>

\* _process_to_4k without the final resize to the exact target.
K4FinalStagesAsLeft(cur) ==
    LET fn == "_process_to_4k"
    IN  <<Ev(fn, "blur", cur, cur, CvMode, TRUE),
          Ev(fn, "blend", cur, cur, CvMode, TRUE),
          Ev(fn, "encode", cur, cur, CvMode, TRUE)>>

\* After the loop: the exact resize if needed, unsharp mask, JPEG 95.
K4FinalStages(cur) ==
    LET fn == "_process_to_4k"
        exact == IF cur # UHD_4K_SIZE
                 THEN <<Ev(fn, "resize", cur, UHD_4K_SIZE, CvMode, TRUE)>>
                 ELSE <<>>
        final == IF exact = <<>> THEN cur ELSE exact[1].to
    IN  exact
        \o <<Ev(fn, "blur", final, final, CvMode, TRUE),
             Ev(fn, "blend", final, final, CvMode, TRUE),
             Ev(fn, "encode", final, final, CvMode, TRUE)>>

\* cv2.imwrite returning False makes _process_to_4k return None.
ProcessTo4kFinal ==
    /\ UNCHANGED hvars
    /\ pc = "_process_to_4k:final"
    /\ \E f \in 0..Len(K4FinalStages(img.size)), wrote \in BOOLEAN :
         RunBody("_process_to_4k", K4FinalStages(img.size), f, "returned",
                 IF wrote THEN "path" ELSE "none",
                 IF wrote
                 THEN File(After(K4FinalStages(img.size)), "JPEG", 95, FALSE, FALSE,
                           "4K", "jpg")
                 ELSE NoFile)
    /\ UNCHANGED <<req, step, result>>

\* _process_to_4k_compressed flattens every layout onto RGB.
CompressedMode(mode) == "RGB"

\* The intermediate size taken as twice the original.
IntermediateSizeTimes2(size, target) ==
    <<Min2(target[1], size[1] * 2), Min2(target[2], size[2] * 2)>>

\* min(target, original * 4) per axis
IntermediateSize(size, target) ==
    <<Min2(target[1], size[1] * 4), Min2(target[2], size[2] * 4)>>

\* _process_to_4k_compressed: LANCZOS resize (through an intermediate size
\* when max_scale > 10.0), sharpen 1.1, progressive JPEG 75.
CompressedStages(src) ==
    LET fn == "_process_to_4k_compressed"
        m == CompressedMode(src.mode)
        mid == IntermediateSize(src.size, UHD_4K_SIZE)
        far == MaxScaleAbove(src.size, UHD_4K_SIZE, 10)
    IN  <<DecodeEv(fn, src.size, src.mode, src.mode, src.pilOk)>>
        \o Conv(fn, src.size, src.mode, m)
        \o (IF far THEN <<Ev(fn, "resize", src.size, mid, m, TRUE)>> ELSE <<>>)
        \o <<Ev(fn, "resize", IF far THEN mid ELSE src.size, UHD_4K_SIZE, m, TRUE),
             Ev(fn, "sharpen", UHD_4K_SIZE, UHD_4K_SIZE, m, CanEnhance(m)),
             Ev(fn, "encode", UHD_4K_SIZE, UHD_4K_SIZE, m, JpegWritable(m))>>

ProcessTo4kCompressed ==
    /\ UNCHANGED hvars
    /\ pc = "_process_to_4k_compressed"
    /\ \E f \in 0..Len(CompressedStages(req.src)) :
         RunBody("_process_to_4k_compressed", CompressedStages(req.src), f,
                 "returned", "path",
                 File(After(CompressedStages(req.src)), "JPEG", 75, TRUE, TRUE,
                      "4K_compressed", "jpg"))
    /\ UNCHANGED <<req, step, result>>

\* max_dimension of _optimize_image
MaxDimension == 2048

OptimizeSize(size) ==
    IF size[1] <= MaxDimension /\ size[2] <= MaxDimension THEN size
    ELSE IF size[1] > size[2]
    THEN <<MaxDimension, TruncMulDiv(size[2], MaxDimension, size[1])>>
    ELSE <<TruncMulDiv(size[1], MaxDimension, size[2]), MaxDimension>>

\* _optimize_image: shrink to at most 2048 on the longer side, sharpen 1.1,
\* progressive JPEG 85.
OptimizeStages(src) ==
    LET fn == "_optimize_image"
        m == SimpleMode(src.mode)
        new == OptimizeSize(src.size)
    IN  <<DecodeEv(fn, src.size, src.mode, src.mode, src.pilOk)>>
        \o Conv(fn, src.size, src.mode, m)
        \o (IF new # src.size
            THEN <<Ev(fn, "resize", src.size, new, m, new[1] > 0 /\ new[2] > 0)>>
            ELSE <<>>)
        \o <<Ev(fn, "sharpen", new, new, m, CanEnhance(m)),
             Ev(fn, "encode", new, new, m, JpegWritable(m))>>

OptimizeImage ==
    /\ UNCHANGED hvars
    /\ pc = "_optimize_image"
    /\ \E f \in 0..Len(OptimizeStages(req.src)) :
         RunBody("_optimize_image", OptimizeStages(req.src), f, "returned", "path",
                 File(After(OptimizeStages(req.src)), "JPEG", 85, TRUE, TRUE,
                      "optimized", "jpg"))
    /\ UNCHANGED <<req, step, result>>

\* The layout _convert_format saves for each target format.
ConvertMode(fmt, mode) ==
    CASE fmt = "JPEG" -> "RGB"
      [] fmt \in {"PNG", "WEBP"} -> IF mode = "P" THEN "RGBA" ELSE mode
      [] OTHER -> mode

\* output_format.lower()
Lower(fmt) ==
    CASE fmt = "JPEG" -> "jpeg"
      [] fmt = "PNG" -> "png"
      [] fmt = "WEBP" -> "webp"
      [] fmt = "BMP" -> "bmp"
      [] OTHER -> "tiff"

ConvertStages(src, fmt) ==
    LET fn == "_convert_format"
        m == ConvertMode(fmt, src.mode)
    IN  <<DecodeEv(fn, src.size, src.mode, src.mode, src.pilOk)>>
        \o Conv(fn, src.size, src.mode, m)
        \o <<Ev(fn, "encode", src.size, src.size, m, Writable(fmt, m))>>

ConvertFormat ==
    /\ UNCHANGED hvars
    /\ pc = "_convert_format"
    /\ \E f \in 0..Len(ConvertStages(req.src, req.fmt)) :
         RunBody("_convert_format", ConvertStages(req.src, req.fmt), f, "returned",
                 "path",
                 File(After(ConvertStages(req.src, req.fmt)), req.fmt,
                      IF req.fmt \in {"JPEG", "WEBP"} THEN 95 ELSE 0,
                      req.fmt \in {"JPEG", "PNG", "WEBP"}, FALSE, "converted",
                      Lower(req.fmt)))
    /\ UNCHANGED <<req, step, result>>

\* _custom_upscale keeps transparency: RGBA, LA and P become RGBA, the
\* rest RGB.
CustomMode(mode) == IF mode \in {"RGBA", "LA", "P"} THEN "RGBA" ELSE "RGB"

\* (original_width * scale_factor, original_height * scale_factor)
CustomTarget(r) == <<r.src.size[1] * r.scale, r.src.size[2] * r.scale>>

\* The mode dispatch falling through to the smart helper.
DispatchSmartDefault(umode) ==
    CASE umode = "max" -> "_max_quality_upscale_image"
      [] OTHER -> "_smart_upscale_image"

\* The helper _custom_upscale calls for a mode string.
Dispatch(umode) ==
    CASE umode = "smart" -> "_smart_upscale_image"
      [] umode = "max" -> "_max_quality_upscale_image"
      [] OTHER -> "_standard_upscale_image"

CustomOpenStages(src) ==
    LET fn == "_custom_upscale"
    IN  <<DecodeEv(fn, src.size, src.mode, src.mode, src.pilOk)>>
        \o Conv(fn, src.size, src.mode, CustomMode(src.mode))

\* _custom_upscale up to the call of the helper.
CustomUpscale ==
    /\ UNCHANGED hvars
    /\ pc = "_custom_upscale"
    /\ \E f \in 0..Len(CustomOpenStages(req.src)) :
         RunBody("_custom_upscale", CustomOpenStages(req.src), f, Dispatch(req.umode),
                 ret, outfile)
    /\ UNCHANGED <<req, step, result>>

StandardUpscale ==
    /\ UNCHANGED hvars
    /\ pc = "_standard_upscale_image"
    /\ \E f \in 0..1 :
         RunBody("_standard_upscale_image",
                 <<Ev("_standard_upscale_image", "resize", img.size, CustomTarget(req),
                      img.mode, TRUE)>>,
                 f, "_custom_upscale:save", ret, outfile)
    /\ UNCHANGED <<req, step, result>>

\* int(log2(num / den)) for num >= den >= 1
RECURSIVE FloorLog2(_, _)
FloorLog2(num, den) == IF num >= 2 * den THEN 1 + FloorLog2(num, 2 * den) ELSE 0

\* steps = int(np.log2(max_scale)) + 1
SmartSteps(size, target) ==
    IF target[1] * size[2] >= target[2] * size[1]
    THEN FloorLog2(target[1], size[1]) + 1
    ELSE FloorLog2(target[2], size[2]) + 1

\* The loop of _smart_upscale_image doubling on every iteration, the last
\* one included.
SmartStepSizeDoubling(size, target, k, steps) ==
    <<size[1] * Pow2(k), size[2] * Pow2(k)>>

\* The size after iteration k (from 1) of the loop of _smart_upscale_image.
SmartStepSize(size, target, k, steps) ==
    IF k = 0 THEN size
    ELSE IF k = steps THEN target
    ELSE <<Min2(size[1] * Pow2(k), target[1]), Min2(size[2] * Pow2(k), target[2])>>

RECURSIVE SmartLoop(_, _, _, _, _)
SmartLoop(size, target, mode, k, steps) ==
    IF k > steps THEN <<>>
    ELSE <<Ev("_smart_upscale_image", "resize",
              SmartStepSize(size, target, k - 1, steps),
              SmartStepSize(size, target, k, steps), mode, TRUE)>>
         \o (IF k < steps
             THEN <<Ev("_smart_upscale_image", "sharpen",
                       SmartStepSize(size, target, k, steps),
                       SmartStepSize(size, target, k, steps), mode, CanEnhance(mode))>>
             ELSE <<>>)
         \o SmartLoop(size, target, mode, k + 1, steps)

\* _smart_upscale_image taking the progressive branch from max_scale = 4.0 on.
SmartStagesFrom4(size, target, mode) ==
    LET resized == IF target[1] >= 4 * size[1] \/ target[2] >= 4 * size[2]
                   THEN SmartLoop(size, target, mode, 1, SmartSteps(size, target))
                   ELSE <<Ev("_smart_upscale_image", "resize", size, target, mode, TRUE)>>
        cur == After(resized).size
    IN  resized
        \o <<Ev("_smart_upscale_image", "sharpen", cur, cur, mode, CanEnhance(mode))>>

\* _smart_upscale_image: progressive LANCZOS steps when max_scale > 4.0,
\* one resize otherwise, then sharpen 1.1.
SmartStages(size, target, mode) ==
    LET resized == IF MaxScaleAbove(size, target, 4)
                   THEN SmartLoop(size, target, mode, 1, SmartSteps(size, target))
                   ELSE <<Ev("_smart_upscale_image", "resize", size, target, mode, TRUE)>>
        cur == After(resized).size
    IN  resized
        \o <<Ev("_smart_upscale_image", "sharpen", cur, cur, mode, CanEnhance(mode))>>

SmartUpscale ==
    /\ UNCHANGED hvars
    /\ pc = "_smart_upscale_image"
    /\ \E f \in 0..Len(SmartStages(img.size, CustomTarget(req), img.mode)) :
         RunBody("_smart_upscale_image", SmartStages(img.size, CustomTarget(req), img.mode),
                 f, "_custom_upscale:save", ret, outfile)
    /\ UNCHANGED <<req, step, result>>

\* _max_quality_upscale_image: to OpenCV, bilateral filter, INTER_CUBIC
\* resize, unsharp mask, back to PIL.
MaxStages(size, target, mode) ==
    LET fn == "_max_quality_upscale_image"
    IN  <<ConvEv(fn, size, mode, mode),
          Ev(fn, "filter", size, size, mode, CanBilateral(mode)),
          Ev(fn, "resize", size, target, mode, TRUE),
          Ev(fn, "blur", target, target, mode, TRUE),
          Ev(fn, "blend", target, target, mode, TRUE),
          ConvEv(fn, target, mode, mode)>>

MaxUpscale ==
    /\ UNCHANGED hvars
    /\ pc = "_max_quality_upscale_image"
    /\ IF img.mode \notin {"RGB", "RGBA"}
       THEN /\ pc' = "_smart_upscale_image"
            /\ UNCHANGED <<trail, ret, img, outfile>>
       ELSE \E f \in 0..Len(MaxStages(img.size, CustomTarget(req), img.mode)) :
              RunBody("_max_quality_upscale_image",
                      MaxStages(img.size, CustomTarget(req), img.mode), f,
                      "_custom_upscale:save", ret, outfile)
    /\ UNCHANGED <<req, step, result>>

\* f"{scale_factor}x_{mode}"
CustomSuffix(r) == ToString(r.scale) \o "x_" \o r.umode

\* The file _custom_upscale saves: PNG for RGBA, progressive JPEG 95 else.
CustomFile(r, buf) ==
    IF buf.mode = "RGBA"
    THEN File(buf, "PNG", 0, TRUE, FALSE, CustomSuffix(r), "png")
    ELSE File(buf, "JPEG", 95, TRUE, TRUE, CustomSuffix(r), "jpg")

CustomSave ==
    /\ UNCHANGED hvars
    /\ pc = "_custom_upscale:save"
    /\ \E f \in 0..1 :
         RunBody("_custom_upscale",
                 <<Ev("_custom_upscale", "encode", img.size, img.size, img.mode,
                      Writable(CustomFile(req, img).fmt, img.mode))>>,
                 f, "returned", "path", CustomFile(req, img))
    /\ UNCHANGED <<req, step, result>>

Next ==
    \/ \E s \in BOOLEAN : Enhance(s)
    \/ ProcessToHd
    \/ ProcessTo4k
    \/ ProcessTo4kStep
    \/ ProcessTo4kFinal
    \/ ProcessTo4kCompressed
    \/ OptimizeImage
    \/ ConvertFormat
    \/ CustomUpscale
    \/ StandardUpscale
    \/ SmartUpscale
    \/ MaxUpscale
    \/ CustomSave
    \/ SimpleResize
    \/ SmartResize
    \/ EntryReturn

Spec == Init /\ [][Next]_vars

(***************************************************************************)
(* Properties.                                                             *)
(***************************************************************************)
\* How far along the call graph a position is: a function ranks above its
\* callers.
PcRank(p) ==
    CASE p = "idle" -> 0
      [] p \in {"_process_to_hd", "_process_to_4k", "_process_to_4k_compressed",
                "_optimize_image", "_convert_format", "_custom_upscale"} -> 1
      [] p \in {"_process_to_4k:loop", "_max_quality_upscale_image"} -> 2
      [] p \in {"_process_to_4k:final", "_smart_upscale_image",
                "_standard_upscale_image"} -> 3
      [] p \in {"_simple_resize", "_smart_resize", "_custom_upscale:save"} -> 4
      [] p = "returned" -> 5
      [] OTHER -> 6

\* The stages run so far plus the position reached.
Progress == Len(trail) + PcRank(pc)

\* No call gets further than this.
MaxProgress == 40

\* C1: every call of an entry point, whatever stage fails inside it, ends
\* and hands its caller an output path or None, never an exception.
\* Termination is stated as progress: short of the return the call is at a
\* position of the call graph that has a step, and every step moves the
\* call forward along a bounded measure (stages run so far plus the
\* position in the call graph).
C1_ReturnsPathOrNone ==
    /\ [](pc = "done" => result \in {"path", "none"})
    /\ [](pc # "done" => PcRank(pc) < PcRank("done"))
    /\ [](Progress <= MaxProgress)
    /\ [][Progress' > Progress]_vars

\* A call in which the primary pipeline and the retry both failed.
C1_BothAttemptsFail ==
    /\ pc = "done"
    /\ result = "none"
    /\ \E i, j \in DOMAIN trail :
         /\ trail[i].fn = "_process_to_hd" /\ trail[i].kind = "filter" /\ ~trail[i].ok
         /\ trail[j].fn = "_simple_resize" /\ trail[j].kind = "encode" /\ ~trail[j].ok

\* C2: a file written by toHD is 1920x1080 and one written by to4K or
\* to4KCompressed is 3840x2160, on whichever path it was produced.
C2_WrittenSizeIsTarget ==
    (/\ pc = "done"
     /\ result = "path"
     /\ req.op \in {"toHD", "to4K", "to4KCompressed"}
     /\ outfile # NoFile)
    => outfile.size = (IF req.op = "toHD" THEN <<1920, 1080>> ELSE <<3840, 2160>>)

\* A to4K call whose loop stopped short of the target and was completed by
\* the final resize.
C2_StalledLoopReachesTarget ==
    /\ pc = "done"
    /\ result = "path"
    /\ req.op = "to4K"
    /\ step > 1
    /\ img.size = <<3840, 2160>>
    /\ outfile.size = <<3840, 2160>>
    /\ \E i \in DOMAIN trail :
         /\ trail[i].fn = "_process_to_4k" /\ trail[i].kind = "resize"
         /\ trail[i].from # trail[i].to /\ trail[i].to = <<3840, 2160>>
         /\ trail[i].from[2] = 2160

\* C3: a file written by customUpscale has the source's width and height
\* times the scale factor, in every mode.
C3_WrittenSizeIsScaled ==
    (pc = "done" /\ result = "path" /\ req.op = "customUpscale")
    => outfile.size = <<req.src.size[1] * req.scale, req.src.size[2] * req.scale>>

\* An 8x "max" call that fell back to the smart helper, which took its
\* progressive branch.
C3_MaxFallsBackToProgressive ==
    /\ pc = "done"
    /\ result = "path"
    /\ req.op = "customUpscale" /\ req.umode = "max" /\ req.scale = 8
    /\ \E i, j \in DOMAIN trail :
         /\ trail[i].fn = "_max_quality_upscale_image" /\ ~trail[i].ok
         /\ trail[j].fn = "_smart_upscale_image" /\ trail[j].kind = "resize"
         /\ trail[j].to = <<req.src.size[1] * 2, req.src.size[2] * 2>>

\* C4: when a stage of an operation's primary path fails, _simple_resize
\* runs exactly once as the retry, and the call returns None only if the
\* retry failed too.
C4_RetriesOnceWithSimpleResize ==
    (/\ pc = "done"
     /\ \E i \in DOMAIN trail : ~trail[i].ok /\ trail[i].fn # "_simple_resize")
    => /\ Cardinality({j \in DOMAIN trail : /\ trail[j].fn = "_simple_resize"
                                            /\ trail[j].kind = "decode"}) = 1
       /\ result = "none"
            => \E j \in DOMAIN trail : trail[j].fn = "_simple_resize" /\ ~trail[j].ok

\* C5: toHD, to4K and to4KCompressed on a source at least as large as the
\* target on both axes run _smart_resize and nothing else (in calls where
\* no stage fails).
C5_LargeSourceTakesSmartResize ==
    (/\ pc = "done"
     /\ req.op \in {"toHD", "to4K", "to4KCompressed"}
     /\ req.src.size[1] >= TargetOf(req.op)[1]
     /\ req.src.size[2] >= TargetOf(req.op)[2]
     /\ trail # <<>>
     /\ \A i \in DOMAIN trail : trail[i].ok)
    => /\ \E i \in DOMAIN trail : trail[i].fn = "_smart_resize"
       /\ \A i \in DOMAIN trail :
            trail[i].fn = "_smart_resize" \/ trail[i].kind = "decode"

\* C6, for toHD and to4K: toHD and to4K on a source that needs more than 8x on
\* an axis run nothing of their own pipeline after the decode, and end in
\* _simple_resize.
C6_Above8xGoesToSimpleResize ==
    (/\ req.op \in {"toHD", "to4K"}
     /\ \/ TargetOf(req.op)[1] > 8 * req.src.size[1]
        \/ TargetOf(req.op)[2] > 8 * req.src.size[2])
    => /\ \A i \in DOMAIN trail :
            trail[i].fn \in {"_process_to_hd", "_process_to_4k"}
                => trail[i].kind = "decode"
       /\ (pc = "done" /\ trail # <<>>)
            => \E i \in DOMAIN trail : trail[i].fn = "_simple_resize"

\* C6, for to4K alone: to4K on a source that needs more than 8x on an axis runs
\* nothing of its own pipeline after the decode, and ends in _simple_resize.
C6_4kAbove8xGoesToSimpleResize ==
    (/\ req.op = "to4K"
     /\ (3840 > 8 * req.src.size[1] \/ 2160 > 8 * req.src.size[2]))
    => /\ \A i \in DOMAIN trail : trail[i].fn = "_process_to_4k" => trail[i].kind = "decode"
       /\ (pc = "done" /\ trail # <<>>)
            => \E i \in DOMAIN trail : trail[i].fn = "_simple_resize"

\* The 50x50 source of the spec's scenario, read by OpenCV, sent to 4K.
C6_TinySourceTo4k ==
    /\ pc = "done"
    /\ req.op = "to4K"
    /\ req.src.size = <<50, 50>>
    /\ req.src.cvOk
    /\ result = "path"
    /\ outfile.size = <<3840, 2160>>
    /\ trail[1].fn = "_process_to_4k" /\ trail[1].ok
    /\ trail[2].fn = "_simple_resize"

\* C7: no call runs more than 5 iterations of the loop of _process_to_4k or
\* of the loop of _smart_upscale_image.
C7_AtMostFiveIterations ==
    /\ step <= 5
    /\ Cardinality({i \in DOMAIN trail : /\ trail[i].fn = "_process_to_4k"
                                         /\ trail[i].kind = "filter"}) <= 5
    /\ Cardinality({i \in DOMAIN trail : /\ trail[i].fn = "_smart_upscale_image"
                                         /\ trail[i].kind = "resize"}) <= 5

\* C8: every resize of _process_to_4k, the final one included, at most
\* doubles each axis.
C8_EveryResizeAtMostDoubles ==
    \A i \in DOMAIN trail :
        (trail[i].fn = "_process_to_4k" /\ trail[i].kind = "resize" /\ trail[i].ok)
        => /\ trail[i].to[1] <= 2 * trail[i].from[1]
           /\ trail[i].to[2] <= 2 * trail[i].from[2]

\* C9: every resize runs on an RGB or RGBA buffer.
C9_ResizeOnRgbOrRgba ==
    \A i \in DOMAIN trail :
        trail[i].kind = "resize" => trail[i].mode \in {"RGB", "RGBA"}

\* C10: toHD and to4K on a source OpenCV cannot read open it with PIL in
\* _simple_resize; and a source no decoder of the operation can read gives
\* None and no file.
C10_DecodeFallback ==
    /\ (/\ pc = "done"
        /\ req.op \in {"toHD", "to4K"}
        /\ ~req.src.cvOk
        /\ trail # <<>>)
       => \E i \in DOMAIN trail : /\ trail[i].fn = "_simple_resize"
                                  /\ trail[i].kind = "decode"
    /\ (/\ pc = "done"
        /\ ~req.src.pilOk
        /\ req.op \in {"toHD", "to4K"} => ~req.src.cvOk)
       => result = "none" /\ outfile = NoFile

\* A to4K call on a source neither decoder reads: both were tried.
C10_BothDecodersFail ==
    /\ pc = "done"
    /\ req.op = "to4K"
    /\ result = "none"
    /\ Len(trail) = 2
    /\ trail[1].fn = "_process_to_4k" /\ trail[1].kind = "decode" /\ ~trail[1].ok
    /\ trail[2].fn = "_simple_resize" /\ trail[2].kind = "decode" /\ ~trail[2].ok

\* C11: customUpscale in mode max runs the OpenCV path first; when a stage
\* of it fails, _smart_upscale_image runs on the same buffer and target,
\* and unless a later stage fails too the call returns a path.
C11_MaxFallsBackToSmart ==
    (req.op = "customUpscale" /\ req.umode = "max")
    => /\ \A j \in DOMAIN trail :
            trail[j].fn = "_smart_upscale_image"
            => \E i \in 1..(j - 1) :
                 trail[i].fn = "_max_quality_upscale_image" /\ ~trail[i].ok
       /\ \A i \in DOMAIN trail :
            (trail[i].fn \in {"_custom_upscale", "_standard_upscale_image"}
             /\ \E k \in 1..(i - 1) : trail[k].fn = "_max_quality_upscale_image")
            => trail[i].kind = "encode"
       /\ (/\ pc \in {"_custom_upscale:save", "returned", "done"}
           /\ \E i \in DOMAIN trail :
                trail[i].fn = "_max_quality_upscale_image" /\ ~trail[i].ok)
          => \E j \in DOMAIN trail :
               /\ trail[j].fn = "_smart_upscale_image"
               /\ trail[j].kind = "resize"
               /\ trail[j].from = req.src.size
               /\ trail[j].mode = (IF req.src.mode \in {"RGBA", "LA", "P"}
                                   THEN "RGBA" ELSE "RGB")
               /\ (j = 1 \/ trail[j - 1].fn = "_max_quality_upscale_image")
       /\ (/\ pc = "done"
           /\ \E i \in DOMAIN trail : ~trail[i].ok
           /\ \A i \in DOMAIN trail :
                ~trail[i].ok => trail[i].fn = "_max_quality_upscale_image")
          => /\ result = "path"
             /\ outfile.size = <<req.src.size[1] * req.scale, req.src.size[2] * req.scale>>

\* An RGBA buffer, which the bilateral filter refuses, upscaled by the
\* smart helper and saved.
C11_RgbaMaxSucceedsThroughSmart ==
    /\ pc = "done"
    /\ req.op = "customUpscale" /\ req.umode = "max"
    /\ req.src.mode = "RGBA"
    /\ result = "path"
    /\ \E i \in DOMAIN trail :
         /\ trail[i].fn = "_max_quality_upscale_image"
         /\ trail[i].kind = "filter" /\ ~trail[i].ok
         /\ trail[i + 1].fn = "_smart_upscale_image"

\* C12: a run of _smart_upscale_image that completes made more than one
\* resize, with a sharpen between them, exactly when the scale is above 4;
\* at 4 and below it made one resize, from the source size to the target.
C12_ProgressiveIffAbove4 ==
    LET smart == {i \in DOMAIN trail : trail[i].fn = "_smart_upscale_image"}
        resizes == {i \in smart : trail[i].kind = "resize"}
        target == <<req.src.size[1] * req.scale, req.src.size[2] * req.scale>>
    IN  (/\ req.op = "customUpscale"
         /\ pc \in {"_custom_upscale:save", "returned", "done"}
         /\ smart # {}
         /\ \A i \in smart : trail[i].ok)
        => IF req.scale > 4
           THEN /\ Cardinality(resizes) > 1
                /\ \A i \in resizes :
                     \/ trail[i].to = target
                     \/ trail[i + 1].kind = "sharpen" /\ trail[i + 2].kind = "resize"
           ELSE /\ Cardinality(resizes) = 1
                /\ \A i \in resizes :
                     trail[i].from = req.src.size /\ trail[i].to = target

\* A 4x smart upscale, at the threshold itself, done in one resize.
C12_SingleResizeAt4 ==
    /\ pc = "done"
    /\ result = "path"
    /\ req.op = "customUpscale" /\ req.umode = "smart" /\ req.scale = 4
    /\ Cardinality({i \in DOMAIN trail : /\ trail[i].fn = "_smart_upscale_image"
                                         /\ trail[i].kind = "resize"}) = 1

\* C13: customUpscale with a mode string other than smart and max, known or
\* not, makes one resize to the target and runs no filter, sharpen, blur or
\* blend.
C13_OtherModesAreStandard ==
    (req.op = "customUpscale" /\ req.umode \notin {"smart", "max"})
    => /\ \A i \in DOMAIN trail :
            /\ trail[i].kind \in {"decode", "convert", "resize", "encode"}
            /\ trail[i].kind = "resize" => trail[i].fn = "_standard_upscale_image"
       /\ (pc = "done" /\ result = "path")
          => \E i \in DOMAIN trail :
               /\ trail[i].kind = "resize" /\ trail[i].ok
               /\ trail[i].from = req.src.size
               /\ trail[i].to = <<req.src.size[1] * req.scale, req.src.size[2] * req.scale>>
               /\ \A j \in DOMAIN trail : trail[j].kind = "resize" => j = i

\* An unrecognised mode string upscaled by the standard helper.
C13_UnknownModeUpscaled ==
    /\ pc = "done"
    /\ result = "path"
    /\ req.op = "customUpscale" /\ req.umode = "other"
    /\ \E i \in DOMAIN trail :
         trail[i].fn = "_standard_upscale_image" /\ trail[i].kind = "resize"

\* C14: a customUpscale output comes from an RGBA source as an RGBA PNG
\* with a .png path, from a source without alpha channel (RGB, grayscale,
\* palette) as a JPEG, and is a PNG exactly when the upscaled buffer is RGBA.
C14_AlphaPngElseJpeg ==
    (pc = "done" /\ result = "path" /\ req.op = "customUpscale")
    => /\ req.src.mode = "RGBA"
            => outfile.mode = "RGBA" /\ outfile.fmt = "PNG" /\ outfile.ext = "png"
       /\ req.src.mode \in {"RGB", "L", "P"}
            => outfile.fmt = "JPEG" /\ outfile.ext = "jpg"
       /\ outfile.fmt = "PNG" <=> outfile.mode = "RGBA"

\* C15: a file written by to4KCompressed is encoded at quality 75 with the
\* optimize and progressive flags, on the primary path and on the fallback;
\* one written by optimize at quality 85; one by toHD or to4K at quality 95.
C15_QualityPerOperation ==
    (pc = "done" /\ result = "path" /\ outfile # NoFile)
    => /\ req.op = "to4KCompressed"
            => outfile.quality = 75 /\ outfile.optimize /\ outfile.progressive
       /\ req.op = "optimize" => outfile.quality = 85
       /\ req.op \in {"toHD", "to4K"} => outfile.quality = 95

\* C18: _process_to_4k_compressed, once its resizing is through, has made
\* two resizes when the source needs more than 10x on an axis, the first to
\* (min(3840, 4w), min(2160, 4h)) and the second from there to 3840x2160,
\* and otherwise one resize, straight to 3840x2160.
C18_IntermediateAbove10x ==
    LET own == {i \in DOMAIN trail : trail[i].fn = "_process_to_4k_compressed"}
        resizes == {i \in own : trail[i].kind = "resize"}
        w == req.src.size[1]
        h == req.src.size[2]
        mid == <<IF 4 * w < 3840 THEN 4 * w ELSE 3840,
                 IF 4 * h < 2160 THEN 4 * h ELSE 2160>>
    IN  (/\ req.op = "to4KCompressed"
         /\ \E i \in own : trail[i].kind = "sharpen")
        => IF 3840 > 10 * w \/ 2160 > 10 * h
           THEN /\ Cardinality(resizes) = 2
                /\ \E i \in resizes :
                     /\ i + 1 \in resizes
                     /\ trail[i].from = req.src.size /\ trail[i].to = mid
                     /\ trail[i + 1].from = mid /\ trail[i + 1].to = <<3840, 2160>>
           ELSE /\ Cardinality(resizes) = 1
                /\ \A i \in resizes :
                     trail[i].from = req.src.size /\ trail[i].to = <<3840, 2160>>

\* A 383x216 source, just above 10x in width, resized through 1532x864.
C18_JustAbove10x ==
    /\ pc = "done"
    /\ result = "path"
    /\ req.op = "to4KCompressed"
    /\ req.src.size = <<383, 216>>
    /\ outfile.quality = 75
    /\ \E i \in DOMAIN trail :
         /\ trail[i].kind = "resize" /\ trail[i].to = <<1532, 864>>
         /\ trail[i + 1].kind = "resize" /\ trail[i + 1].to = <<3840, 2160>>

(***************************************************************************)
(* _smart_resize on its own, over a grid of source sizes.                  *)
(***************************************************************************)
\* The grid has MaxCropStep + 1 widths and as many heights per target.
MaxCropStep == 8

\* Sources at least as large as the target, as _process_to_hd and
\* _process_to_4k pass them on: the target plus steps of 37 and 53 pixels
\* (ratios on both sides of 16:9, inside and outside the 0.01 band), and
\* the large sizes of the pipeline runs.
CropSizes(target) ==
    {<<target[1] + 37 * a, target[2] + 53 * b>> : a, b \in 0..MaxCropStep}
    \cup {s \in BaseSizes : AlreadyLarge(s, target)}

CropRequests ==
    UNION {[op : {o}, src : [size : CropSizes(TargetOf(o)), mode : {"RGB", "P"},
                              cvOk : {TRUE}, pilOk : {TRUE}],
            fmt : {"-"}, scale : {0}, umode : {"-"}] : o \in {"toHD", "to4K"}}

\* The call has reached _smart_resize.
CropInit ==
    /\ HandlersIdle
    /\ pc = "_smart_resize"
    /\ req \in CropRequests
    /\ img = NoImg
    /\ step = 0
    /\ trail = <<>>
    /\ ret = "-"
    /\ result = "pending"
    /\ outfile = NoFile

CropSpec == CropInit /\ [][SmartResize \/ EntryReturn]_vars

\* C19: a crop of _smart_resize lies inside the source, leaves one axis
\* whole, and on the other axis removes margins that differ by at most one
\* pixel.
C19_CropCentred ==
    \A i \in DOMAIN trail :
        trail[i].kind = "crop"
        => LET ow == trail[i].from[1]
               oh == trail[i].from[2]
               cw == trail[i].to[1]
               ch == trail[i].to[2]
               x == trail[i].off[1]
               y == trail[i].off[2]
               dx == x - (ow - cw - x)
               dy == y - (oh - ch - y)
           IN  /\ cw > 0 /\ ch > 0
               /\ x >= 0 /\ y >= 0
               /\ x + cw <= ow /\ y + ch <= oh
               /\ \/ ch = oh /\ y = 0 /\ dx \in {-1, 0, 1}
                  \/ cw = ow /\ x = 0 /\ dy \in {-1, 0, 1}

\* A crop with an odd margin: one pixel more at the bottom than at the top.
C19_OddMarginCrop ==
    /\ pc = "done"
    /\ result = "path"
    /\ \E i \in DOMAIN trail :
         /\ trail[i].kind = "crop"
         /\ trail[i].to[1] = trail[i].from[1]
         /\ trail[i].off[2] > 0
         /\ trail[i].from[2] - trail[i].to[2] = 2 * trail[i].off[2] + 1

(***************************************************************************)
(* convert_format applied to its own output.                               *)
(***************************************************************************)
\* The layouts a file of each format can be opened with by PIL.
CanHold(fmt, mode) ==
    CASE fmt = "JPEG" -> mode \in {"L", "RGB"}
      [] fmt = "WEBP" -> mode \in {"RGB", "RGBA"}
      [] fmt = "BMP" -> mode \in {"L", "P", "RGB"}
      [] OTHER -> TRUE

\* The layouts PIL may open a file with that was saved in format fmt from a
\* buffer of layout mode: the WebP encoder stores RGB or RGBA only, and
\* whether a 32-bit BMP comes back with its alpha depends on the reader.
Reopened(fmt, mode) ==
    CASE fmt = "WEBP" -> {IF mode \in {"LA", "RGBA"} THEN "RGBA" ELSE "RGB"}
      [] fmt = "BMP" /\ mode = "RGBA" -> {"RGB", "RGBA"}
      [] OTHER -> {mode}

\* The calls of _convert_format made so far.
Conversions ==
    {i \in DOMAIN trail : trail[i].fn = "_convert_format" /\ trail[i].kind = "decode"}

\* The file a conversion to PNG wrote is handed to convert_format again, to
\* be converted to the format of the original (any format that can hold the
\* original's layout).
ConvertBack ==
    /\ UNCHANGED hvars
    /\ pc = "done"
    /\ req.op = "convertFormat" /\ req.fmt = "PNG"
    /\ result = "path"
    /\ Cardinality(Conversions) = 1
    /\ \E back \in SUPPORTED_FORMATS, m \in Reopened(outfile.fmt, outfile.mode) :
         /\ CanHold(back, trail[1].mode)
         /\ req' = [req EXCEPT !.fmt = back,
                               !.src = [size |-> outfile.size, mode |-> m,
                                        cvOk |-> TRUE, pilOk |-> TRUE]]
    /\ pc' = "idle"
    /\ UNCHANGED <<img, step, trail, ret, result, outfile>>

RoundTripSpec == Init /\ [][Next \/ ConvertBack]_vars

\* C20: converting to PNG and converting the result back to the original
\* format gives an image of the original's width and height and, for an
\* RGB, grayscale or palette original, of the original's layout.
C20_RoundTripKeepsSizeAndLayout ==
    (/\ pc = "done"
     /\ result = "path"
     /\ req.op = "convertFormat"
     /\ Cardinality(Conversions) = 2)
    => /\ outfile.size = trail[1].from
       /\ trail[1].mode \in {"RGB", "L", "P"}
            => \A m \in Reopened(outfile.fmt, outfile.mode) : m = trail[1].mode

(***************************************************************************)
(* The handlers: uploads, callbacks, temp files.                           *)
(***************************************************************************)
\* The file ids Telegram hands out; two uploads may carry the same one.
FileIds == {"f1", "f2"}

\* os.path.splitext(document.file_name)[1].lower()
DocExts == {".jpg", ".png"}

\* The files the temp directory can hold at once: a write beyond it fails.
MaxFiles == 2

\* os.path.join(Config.TEMP_DIR, f"{photo.file_id}.jpg"), and
\* f"{document.file_id}{file_extension}" for a document.
SourcePath(file_id, ext) == file_id \o ext

\* os.path.splitext(os.path.basename(input_path))[0]
BaseName(input_path) ==
    CHOOSE f \in FileIds : \E e \in DocExts : input_path = f \o e

FormatData == {"format_jpeg", "format_png", "format_webp", "format_bmp"}
UpscaleData == {"upscale_2x", "upscale_3x", "upscale_4x", "upscale_8x",
                "upscale_smart", "upscale_max"}
ProcessingData ==
    {"enhance_hd", "enhance_4k", "enhance_4k_compressed", "optimize"}
    \cup FormatData \cup UpscaleData

\* Every callback_data of the keyboards.
CallbackData ==
    ProcessingData
    \cup {"convert_format", "custom_upscale", "back_to_main",
          "quality_max", "quality_balanced", "quality_compressed"}

\* callback_data.split("_")[1].upper()
FormatOf(data) ==
    CASE data = "format_jpeg" -> "JPEG"
      [] data = "format_png" -> "PNG"
      [] data = "format_webp" -> "WEBP"
      [] OTHER -> "BMP"

\* handle_callback asking for an 8x upscale on the 'Max Upscale' button.
UpscaleArgsMax8(data) ==
    CASE data = "upscale_2x" -> [scale |-> 2, umode |-> "standard"]
      [] data = "upscale_3x" -> [scale |-> 3, umode |-> "standard"]
      [] data = "upscale_4x" -> [scale |-> 4, umode |-> "standard"]
      [] data = "upscale_8x" -> [scale |-> 8, umode |-> "standard"]
      [] data = "upscale_smart" -> [scale |-> 2, umode |-> "smart"]
      [] data = "upscale_max" -> [scale |-> 8, umode |-> "max"]
      [] OTHER -> [scale |-> 2, umode |-> "standard"]

\* scale_factor and mode handle_callback passes to custom_upscale.
UpscaleArgs(data) ==
    CASE data = "upscale_2x" -> [scale |-> 2, umode |-> "standard"]
      [] data = "upscale_3x" -> [scale |-> 3, umode |-> "standard"]
      [] data = "upscale_4x" -> [scale |-> 4, umode |-> "standard"]
      [] data = "upscale_8x" -> [scale |-> 8, umode |-> "standard"]
      [] data = "upscale_smart" -> [scale |-> 2, umode |-> "smart"]
      [] data = "upscale_max" -> [scale |-> 4, umode |-> "max"]
      [] OTHER -> [scale |-> 2, umode |-> "standard"]

\* The path the processor writes for a callback: _get_output_path with the
\* operation's suffix, the path _convert_format builds, and for an upscaled
\* RGBA buffer (alpha) the path with .jpg replaced by .png.
OutputPath(input_path, data, alpha) ==
    LET base == BaseName(input_path)
    IN  CASE data = "enhance_hd" -> base \o "_" \o SuffixOf("toHD") \o ".jpg"
          [] data = "enhance_4k" -> base \o "_" \o SuffixOf("to4K") \o ".jpg"
          [] data = "enhance_4k_compressed" ->
               base \o "_" \o SuffixOf("to4KCompressed") \o ".jpg"
          [] data = "optimize" -> base \o "_optimized.jpg"
          [] data \in FormatData -> base \o "_converted." \o Lower(FormatOf(data))
          [] OTHER -> base \o "_" \o CustomSuffix(UpscaleArgs(data))
                           \o (IF alpha THEN ".png" ELSE ".jpg")

\* The processor's call state while the handlers are followed: no call running.
NoRequest ==
    [op |-> "-", src |-> [size |-> NoSize, mode |-> "-", cvOk |-> FALSE, pilOk |-> FALSE],
     fmt |-> "-", scale |-> 0, umode |-> "-"]

BotInit ==
    /\ HandlersIdle
    /\ pc = "idle"
    /\ req = NoRequest
    /\ img = NoImg
    /\ step = 0
    /\ trail = <<>>
    /\ ret = "-"
    /\ result = "-"
    /\ outfile = NoFile

\* The callback_data of the keyboards the handlers display: the quality
\* keyboard is never shown.
DisplayedData ==
    CallbackData \ {"quality_max", "quality_balanced", "quality_compressed"}

\* The keys of processing_types: the callbacks after which the enhanced
\* handler increments the counter.
CountedData ==
    {"enhance_hd", "enhance_4k", "enhance_4k_compressed", "optimize", "convert_format"}

\* The counter may grow up to MaxCounted.
MaxCounted == 2

\* EnhancedBotHandlers.handle_callback after super().handle_callback
\* returned: increment_processed_images() for the keys of processing_types.
\* The plain BotHandlers (enhanced = FALSE) have no counter.
AfterCallback(enhanced, data) ==
    images_processed' = IF enhanced /\ data \in CountedData
                        THEN images_processed + 1
                        ELSE images_processed

\* handle_photo / handle_document after the file's path is computed.
\* outcome: "rejected" by the size or type check, "raised" by get_file or
\* the download, "ok".  Updates are handled one at a time.
Upload(u, file_id, file_path, outcome) ==
    /\ update = NoUpdate
    /\ IF outcome = "rejected"
       THEN reply' = "rejected" /\ UNCHANGED <<user_data, temp_dir>>
       ELSE IF outcome = "raised" \/ Cardinality(temp_dir \cup {file_path}) > MaxFiles
       THEN reply' = "upload_error" /\ UNCHANGED <<user_data, temp_dir>>
       ELSE /\ temp_dir' = temp_dir \cup {file_path}
            /\ user_data' = [user_data EXCEPT
                               ![u] = [file_path |-> file_path, file_id |-> file_id]]
            /\ reply' = "choose"
    /\ UNCHANGED <<update, images_processed, calls>>
    /\ UNCHANGED vars

HandlePhoto ==
    \E u \in Users, f \in FileIds, outcome \in {"rejected", "raised", "ok"} :
        Upload(u, f, SourcePath(f, ".jpg"), outcome)

HandleDocument ==
    \E u \in Users, f \in FileIds, e \in DocExts,
       outcome \in {"rejected", "raised", "ok"} :
        Upload(u, f, SourcePath(f, e), outcome)

\* The if/elif chain of handle_callback: "process" when the branch calls
\* the processor, the menu it opens, or "failed" when no branch matches,
\* result_path stays None and the generic error is shown.
Branch(data) ==
    IF data \in ProcessingData THEN "process"
    ELSE IF data = "convert_format" THEN "choose_format"
    ELSE IF data = "custom_upscale" THEN "choose_upscale"
    ELSE "failed"

\* handle_callback with the current_image test left out.
HasImageAlways(u) == TRUE

\* 'current_image' in context.user_data
HasImage(u) == user_data[u] # NoImage

\* handle_callback up to the call of the processor.
HandleCallback(enhanced) ==
    /\ update = NoUpdate
    /\ images_processed < MaxCounted
    /\ \E u \in Users, data \in DisplayedData :
         IF HasImage(u) /\ Branch(data) = "process"
         THEN /\ reply' = "processing"
              /\ update' = [user |-> u, data |-> data, at |-> "processing",
                            result_path |-> "-"]
              /\ UNCHANGED images_processed
         ELSE /\ reply' = IF HasImage(u) THEN Branch(data) ELSE "no_image"
              /\ UNCHANGED update
              /\ AfterCallback(enhanced, data)
    /\ UNCHANGED <<user_data, temp_dir, calls>>
    /\ UNCHANGED vars

\* The awaited entry point returns: the output path, or None when the
\* source cannot be read or the processing or the write fails.
\* _process_to_hd returns the path even when cv2.imwrite wrote nothing.
ProcessorReturn(enhanced) ==
    /\ update.at = "processing"
    /\ \E ok \in BOOLEAN, alpha \in BOOLEAN, written \in BOOLEAN :
         LET input_path == user_data[update.user].file_path
             output_path == OutputPath(input_path, update.data, alpha)
         IN  IF /\ ok
                /\ input_path \in temp_dir
                /\ Cardinality(temp_dir \cup {output_path}) <= MaxFiles
             THEN /\ temp_dir' = IF written \/ update.data # "enhance_hd"
                                 THEN temp_dir \cup {output_path}
                                 ELSE temp_dir
                  /\ update' = [update EXCEPT !.at = "sending",
                                              !.result_path = output_path]
                  /\ UNCHANGED <<reply, images_processed>>
             ELSE /\ update' = NoUpdate
                  /\ reply' = IF update.data \in {"enhance_4k", "enhance_4k_compressed"}
                              THEN "failed_4k" ELSE "failed"
                  /\ UNCHANGED temp_dir
                  /\ AfterCallback(enhanced, update.data)
    /\ UNCHANGED <<user_data, calls>>
    /\ UNCHANGED vars

\* handle_callback cleaning up in a finally clause, sent or not.
CleanupReachedAlways(sent) == TRUE

\* The clean-up follows send_document inside the try: it is reached only
\* when sending did not raise.
CleanupReached(sent) == sent

\* handle_callback from "Send processed image" on: send the document, then
\* delete the source and the result and forget the image; when
\* send_document raises (sent = FALSE) the except clause replies.
SendResult(enhanced) ==
    /\ update.at = "sending"
    /\ \E sent \in BOOLEAN :
         IF update.result_path \notin temp_dir
         THEN reply' = "failed" /\ UNCHANGED <<user_data, temp_dir>>
         ELSE /\ reply' = IF sent THEN "completed" ELSE "error"
              /\ IF CleanupReached(sent)
                 THEN /\ temp_dir' = temp_dir \ {user_data[update.user].file_path,
                                                 update.result_path}
                      /\ user_data' = [user_data EXCEPT ![update.user] = NoImage]
                 ELSE UNCHANGED <<user_data, temp_dir>>
    /\ AfterCallback(enhanced, update.data)
    /\ update' = NoUpdate
    /\ UNCHANGED calls
    /\ UNCHANGED vars

\* BotHandlers, as main.py registers them.
BotNext ==
    \/ HandlePhoto
    \/ HandleDocument
    \/ HandleCallback(FALSE)
    \/ ProcessorReturn(FALSE)
    \/ SendResult(FALSE)

BotSpec == BotInit /\ [][BotNext]_hvars

\* The users whose uploaded image waits for a callback or is being
\* processed.
Pending == {u \in Users : user_data[u] # NoImage}

\* C16: two requests that are pending or in flight at the same time use
\* different source files and would write different output files, and the
\* source file of every such request is still in the temp directory (no
\* other request deleted it).
C16_RequestsUseDistinctFiles ==
    /\ \A u, v \in Pending :
         u # v =>
           /\ user_data[u].file_path # user_data[v].file_path
           /\ \A data \in ProcessingData, alpha \in BOOLEAN :
                OutputPath(user_data[u].file_path, data, alpha)
                  # OutputPath(user_data[v].file_path, data, alpha)
    /\ \A u \in Pending : user_data[u].file_path \in temp_dir

(***************************************************************************)
(* Entry points called side by side: the executor.                         *)
(***************************************************************************)
\* Config.MAX_CONCURRENT_PROCESSES
MAX_CONCURRENT_PROCESSES == 3

\* os.cpu_count() of the machine (at least 1).
CpuCount == 1

\* Threads of the event loop's default executor: min(32, os.cpu_count() + 4).
DefaultWorkers == Min2(32, CpuCount + 4)

\* An executor sized by the configured cap.
ExecutorWorkersCapped == MAX_CONCURRENT_PROCESSES

\* loop.run_in_executor(None, ...): None selects the default executor.
ExecutorWorkers == DefaultWorkers

\* The calls whose worker function is running in a thread.
InFlight == {c \in Calls : calls[c] = "running"}

\* enhance_to_hd ... custom_upscale: the entry point is called and hands its
\* worker function to the executor; no condition is tested before.
Issue(c) ==
    /\ calls[c] = "new"
    /\ calls' = [calls EXCEPT ![c] = "submitted"]
    /\ UNCHANGED bvars
    /\ UNCHANGED vars

\* A thread of the executor takes the submitted work.
Start(c) ==
    /\ calls[c] = "submitted"
    /\ Cardinality(InFlight) < ExecutorWorkers
    /\ calls' = [calls EXCEPT ![c] = "running"]
    /\ UNCHANGED bvars
    /\ UNCHANGED vars

\* The worker function returns and the awaiting entry point with it.
Finish(c) ==
    /\ calls[c] = "running"
    /\ calls' = [calls EXCEPT ![c] = "returned"]
    /\ UNCHANGED bvars
    /\ UNCHANGED vars

PoolNext ==
    \/ \E c \in Calls : Issue(c)
    \/ \E c \in Calls : Start(c)
    \/ \E c \in Calls : Finish(c)

PoolSpec == BotInit /\ [][PoolNext]_hvars

\* C17: the cap of 3 is not enforced.  Every call can be issued whatever
\* the number of transforms in flight, and a submitted call is kept waiting
\* only while more transforms than the cap are already in flight (all the
\* executor's threads busy): with exactly the cap in flight it can start.
C17_CapNotEnforced ==
    \A c \in Calls :
        /\ calls[c] = "new" => ENABLED Issue(c)
        /\ calls[c] = "submitted" =>
             \/ ENABLED Start(c)
             \/ Cardinality(InFlight) > MAX_CONCURRENT_PROCESSES

\* More than 3 transforms in flight at once, and a further call submitted.
C17_FourInFlight ==
    /\ Cardinality(InFlight) > MAX_CONCURRENT_PROCESSES
    /\ \E c \in Calls : calls[c] = "submitted"

\* C22: a toHD or to4K call whose worker function ran returns None only
\* after _simple_resize was attempted in that call and failed itself.
C22_NoneOnlyAfterSimpleResize ==
    (/\ pc = "done"
     /\ req.op \in {"toHD", "to4K"}
     /\ result = "none"
     /\ trail # <<>>)
    => \E j \in DOMAIN trail : trail[j].fn = "_simple_resize" /\ ~trail[j].ok

\* C23: in the multi-step loop of _process_to_4k no resize makes the width
\* or the height smaller, and when the loop is left both dimensions have
\* reached the target.
C23_LoopGrowsToTarget ==
    /\ pc \in {"_process_to_4k:loop", "_process_to_4k:final"} =>
         \A i \in DOMAIN trail :
             (trail[i].fn = "_process_to_4k" /\ trail[i].kind = "resize")
             => /\ trail[i].to[1] >= trail[i].from[1]
                /\ trail[i].to[2] >= trail[i].from[2]
    /\ pc = "_process_to_4k:final" => ~Smaller(img.size, UHD_4K_SIZE)

(***************************************************************************)
(* optimize on sources around the 2048 limit.                              *)
(***************************************************************************)
\* Widths and heights on each side of max_dimension, and thin ones.
OptimizeSides == {1, 2, 3, 1024, 2047, 2048, 2049, 4096, 4097, 5000}

OptimizeRequests ==
    [op : {"optimize"},
     src : [size : OptimizeSides \X OptimizeSides, mode : Modes,
            cvOk : {TRUE}, pilOk : BOOLEAN],
     fmt : {"-"}, scale : {0}, umode : {"-"}]

OptimizeInit ==
    /\ HandlersIdle
    /\ pc = "idle"
    /\ req \in OptimizeRequests
    /\ img = NoImg
    /\ step = 0
    /\ trail = <<>>
    /\ ret = "-"
    /\ result = "-"
    /\ outfile = NoFile

OptimizeSpec ==
    OptimizeInit /\ [][(\E s \in BOOLEAN : Enhance(s)) \/ OptimizeImage \/ EntryReturn]_vars

\* C29: optimize resizes only a source whose longer side exceeds 2048, to a
\* size with both dimensions in 1..2048 and neither larger than in the
\* source; a source it does not resize is within 2048 already.
C29_OptimizeWithin2048 ==
    req.op = "optimize" =>
      /\ \A i \in DOMAIN trail :
           (trail[i].fn = "_optimize_image" /\ trail[i].kind = "resize")
           => /\ trail[i].from[1] > MaxDimension \/ trail[i].from[2] > MaxDimension
              /\ trail[i].to[1] \in 1..MaxDimension
              /\ trail[i].to[2] \in 1..MaxDimension
              /\ trail[i].to[1] <= trail[i].from[1]
              /\ trail[i].to[2] <= trail[i].from[2]
      /\ (pc = "done" /\ result = "path") =>
           /\ outfile.size[1] \in 1..MaxDimension
           /\ outfile.size[2] \in 1..MaxDimension

\* The events of function fn in the trail.
EventsOf(fn) == SelectSeq(trail, LAMBDA e : e.fn = fn)

\* C30: within one call _simple_resize is entered at most once and nothing
\* else runs after it; _smart_upscale_image runs at most once (its events
\* are no more than one pass makes) and only the save of _custom_upscale
\* follows it; and a function in which a stage failed never runs again.
C30_AtMostOneFallback ==
    /\ Cardinality({i \in DOMAIN trail :
                      trail[i].fn = "_simple_resize" /\ trail[i].kind = "decode"}) <= 1
    /\ req.op = "customUpscale" =>
         Len(EventsOf("_smart_upscale_image"))
           <= Len(SmartStages(req.src.size, CustomTarget(req), CustomMode(req.src.mode)))
    /\ \A i, j \in DOMAIN trail :
         i < j =>
           /\ trail[i].fn = "_simple_resize" => trail[j].fn = "_simple_resize"
           /\ trail[i].fn = "_smart_upscale_image"
                => trail[j].fn \in {"_smart_upscale_image", "_custom_upscale"}
           /\ ~trail[i].ok => trail[j].fn # trail[i].fn

\* A to4K call whose loop failed and whose fallback wrote the file, or a
\* max upscale that failed and was completed by the smart upscale.
C30_FallbackRanOnce ==
    /\ pc = "done"
    /\ result = "path"
    /\ \/ /\ \E i \in DOMAIN trail : trail[i].fn = "_process_to_4k" /\ ~trail[i].ok
          /\ \E j \in DOMAIN trail : trail[j].fn = "_simple_resize"
       \/ /\ \E i \in DOMAIN trail :
                trail[i].fn = "_max_quality_upscale_image" /\ ~trail[i].ok
          /\ \E j \in DOMAIN trail : trail[j].fn = "_smart_upscale_image"

(***************************************************************************)
(* custom_upscale as handle_callback calls it.                             *)
(***************************************************************************)
\* The callback_data that reach the upscale_ branch: the buttons of the
\* upscale keyboard and a value no button carries.
UpscaleTypes == UpscaleData \cup {"upscale_16x"}

\* The requests handle_callback issues to custom_upscale.
HandlerUpscaleRequests ==
    {[op |-> "customUpscale", src |-> s, fmt |-> "-",
      scale |-> UpscaleArgs(d).scale, umode |-> UpscaleArgs(d).umode] :
        s \in Sources, d \in UpscaleTypes}

HandlerUpscaleInit ==
    /\ HandlersIdle
    /\ pc = "idle"
    /\ req \in HandlerUpscaleRequests
    /\ img = NoImg
    /\ step = 0
    /\ trail = <<>>
    /\ ret = "-"
    /\ result = "-"
    /\ outfile = NoFile

HandlerUpscaleSpec ==
    HandlerUpscaleInit
    /\ [][\/ \E s \in BOOLEAN : Enhance(s)
          \/ CustomUpscale
          \/ StandardUpscale
          \/ SmartUpscale
          \/ MaxUpscale
          \/ CustomSave
          \/ EntryReturn]_vars

\* C28: a custom upscale issued by handle_callback asks for 2x, 3x, 4x or
\* 8x standard, 2x smart or 4x max; whenever _smart_upscale_image runs for
\* it the scale is at most 4 and it makes a single resize, never the
\* progressive steps.
C28_HandlerUpscaleNeverProgressive ==
    /\ <<req.scale, req.umode>> \in
         {<<2, "standard">>, <<3, "standard">>, <<4, "standard">>,
          <<8, "standard">>, <<2, "smart">>, <<4, "max">>}
    /\ (\E i \in DOMAIN trail : trail[i].fn = "_smart_upscale_image") =>
         /\ ~MaxScaleAbove(req.src.size, CustomTarget(req), 4)
         /\ Cardinality({i \in DOMAIN trail :
                           /\ trail[i].fn = "_smart_upscale_image"
                           /\ trail[i].kind = "resize"}) = 1

\* The 'Max Upscale' button on a source whose max-quality pass failed: the
\* smart upscale ran at 4x and the file was written.
C28_MaxButtonThroughSmart ==
    /\ pc = "done"
    /\ result = "path"
    /\ req.umode = "max" /\ req.scale = 4
    /\ \E i \in DOMAIN trail : trail[i].fn = "_max_quality_upscale_image" /\ ~trail[i].ok
    /\ \E i \in DOMAIN trail :
         /\ trail[i].fn = "_smart_upscale_image"
         /\ trail[i].kind = "resize"
         /\ trail[i].to = <<4 * req.src.size[1], 4 * req.src.size[2]>>

(***************************************************************************)
(* The handlers with the status page's counter (bot_integration.py).       *)
(***************************************************************************)
\* EnhancedBotHandlers, as bot_integration.py registers them.
EnhancedNext ==
    \/ HandlePhoto
    \/ HandleDocument
    \/ HandleCallback(TRUE)
    \/ ProcessorReturn(TRUE)
    \/ SendResult(TRUE)

EnhancedSpec == BotInit /\ [][EnhancedNext]_hvars

\* C21: the counter of processed images changes only in the step that
\* delivers a result file (the processor produced it and the document was
\* sent).
C21_CountedOnlyWhenDelivered ==
    [][images_processed' # images_processed
         => update.at = "sending" /\ reply' = "completed"]_hvars

\* C27: the generic 'Error processing image' reply is shown only after the
\* processor was called: no button of a displayed keyboard leads to it
\* straight from handle_callback's if/elif chain.
C27_EveryButtonHasBranch ==
    [][reply' = "failed" => update.at # "idle"]_hvars

\* C26: a callback that ends with an error reply (the processor returned
\* None, the result file is missing, sending raised, or no branch matched)
\* or that only opens the format or upscale menu changes no user's
\* current_image and deletes no file.
C26_FailureKeepsImage ==
    [][reply' \in {"failed", "failed_4k", "error", "choose_format", "choose_upscale"}
         => /\ user_data' = user_data
            /\ temp_dir \subseteq temp_dir']_hvars

\* Sending raised: the reply is the error text, the user's image is still
\* current and its source file and the result file are still there.
C26_SendRaised ==
    /\ reply = "error"
    /\ update = NoUpdate
    /\ \E u \in Users :
         /\ HasImage(u)
         /\ user_data[u].file_path \in temp_dir
         /\ OutputPath(user_data[u].file_path, "enhance_4k", FALSE) \in temp_dir

BotFairSpec ==
    /\ BotSpec
    /\ WF_hvars(ProcessorReturn(FALSE))
    /\ WF_hvars(SendResult(FALSE))

\* The paths an upload is downloaded to.
SourcePaths == {SourcePath(f, e) : f \in FileIds, e \in DocExts}

\* C24: every downloaded source file in the temp directory is deleted
\* again at some later time.
C24_EveryFileDeleted ==
    \A p \in SourcePaths : (p \in temp_dir) ~> (p \notin temp_dir)

====
